---------------------------- MODULE Spec2Model ----------------------------
(***************************************************************************)
(* Model of the CloudNordSP XDP packet filter (src/minecraft_protection.c) *)
(* and of the map-management functions of its loader (src/loader.c).       *)
(*                                                                         *)
(* Every C function is an operator that takes the tables it reads and      *)
(* returns its result together with the tables it wrote; the actions of    *)
(* the specifications below apply these operators to the state.            *)
(***************************************************************************)
EXTENDS Integers, Sequences, FiniteSets, TLC

VARIABLES
    mem,        \* validator specification: the bytes at `data` (index 0 first)
    buflen,     \* validator specification: data_end - data
    vkind,      \* validator specification: which validator ran ("none" before)
    vret,       \* validator specification: what it returned (-1 before)
    now,        \* bpf_ktime_get_ns() / 1000000: milliseconds since boot
    map_src_rate,       \* source address -> struct rate_limit_state
    map_udp_challenges, \* source address -> struct udp_challenge_state
    map_stats,          \* counter index -> count
    map_protected_endpoints, \* the LPM trie: a set of nodes
    map_conntrack,      \* flow hash -> struct conntrack_entry
    map_blacklist,      \* source address -> block-until timestamp
    added,      \* for each blacklist entry, the add call that wrote it: the
                \* monotonic clock at the call (T) and its duration (D)
    inv,        \* concurrent specifications: for each CPU, the invocation of
                \* the XDP program running on it (its position and locals)
    log,        \* the calls made so far, oldest first, with their results
    last        \* the last call made: its input, result, and the tables
                \* before (pre) and after (post) it

valVars == <<mem, buflen, vkind, vret>>

ctlTables == <<map_protected_endpoints, map_conntrack, map_blacklist, added>>

tables == <<map_src_rate, map_udp_challenges, map_stats, ctlTables>>

vars == <<mem, buflen, vkind, vret, now, map_src_rate, map_udp_challenges,
          map_stats, map_protected_endpoints, map_conntrack, map_blacklist,
          added, inv, log, last>>

(***************************************************************************)
(* 32-bit unsigned values that are built with | and << are kept as the set *)
(* of their one-bit positions (0 = least significant): union is |, and a   *)
(* shift drops the bits that leave the 32-bit word.                        *)
(***************************************************************************)
Bits(b) == {i \in 0..7 : (b \div (2 ^ i)) % 2 = 1}

Shl(S, n) == {i + n : i \in {j \in S : j + n < 32}}

RECURSIVE LowVal(_)
LowVal(S) == IF S = {} THEN 0
             ELSE LET i == CHOOSE j \in S : TRUE IN (2 ^ i) + LowVal(S \ {i})

\* lo <= value(S) <= hi, for bounds below 2^12
InRange(S, lo, hi) ==
    /\ \A i \in S : i < 12
    /\ LowVal(S) >= lo
    /\ LowVal(S) <= hi


(***************************************************************************)
(* BPF hash maps are functions on the set of keys they hold.               *)
(* bpf_map_update_elem with BPF_ANY fails on a new key when the map holds  *)
(* max_entries keys.                                                       *)
(***************************************************************************)
Has(m, k) == k \in DOMAIN m

Put(m, k, v) == [x \in DOMAIN m \cup {k} |-> IF x = k THEN v ELSE m[x]]

Del(m, k) == [x \in DOMAIN m \ {k} |-> m[x]]

EmptyMap == [x \in {} |-> 0]

CanInsert(m, k, max_entries) == Has(m, k) \/ Cardinality(DOMAIN m) < max_entries

(***************************************************************************)
(* 32-bit unsigned arithmetic.  The values the tables hold stay below 2^31 *)
(* in this model; a difference, and a product, of two of them is a 32-bit  *)
(* word kept as <<high 16 bits, low 16 bits>>.                             *)
(***************************************************************************)
W16 == 2 ^ 16

\* (a - b) mod 2^32
Sub32(a, b) ==
    IF a >= b THEN <<(a - b) \div W16, (a - b) % W16>>
    ELSE LET d == b - a - 1 IN <<W16 - 1 - (d \div W16), W16 - 1 - (d % W16)>>

\* (x * y) mod 2^16, for x, y < 2^16
MulMod16(x, y) == ((x * (y % 256)) + ((x * (y \div 256)) % 256) * 256) % W16

\* (w * b) mod 2^32, for a word w and 0 <= b < 2^31
Mul32(w, b) ==
    LET bh == (b \div W16) % W16
        bl == b % W16
        p0 == (w[2] % 256) * bl
        p1 == (w[2] \div 256) * bl
        lo == p0 + (p1 % 256) * 256
        carry == (lo \div W16) + (p1 \div 256)
    IN <<(carry + MulMod16(w[1], bl) + MulMod16(w[2], bh)) % W16, lo % W16>>

\* w / 1000
Div1000(w) == (w[1] \div 1000) * W16 + (((w[1] % 1000) * W16 + w[2]) \div 1000)


(***************************************************************************)
(* Packet memory.  A buffer is the byte sequence found at `data`; the      *)
(* first buflen bytes belong to the packet (data_end = data + buflen),     *)
(* the bytes after them are whatever the memory holds.  pkt[i] is          *)
(* ByteAt(m, i).  A read outside the modelled memory, and a shift by 32 or *)
(* more, have no defined value: the validator's result is then any of its  *)
(* two results.                                                            *)
(***************************************************************************)
ByteAt(m, i) == m[i + 1]

InMem(m, i) == i < Len(m)

\* validate_minecraft_java, the while loop of lines 205-210.  length_bytes is
\* never assigned after its initialisation to 0, so the shift is 7 * offset.
\* The test of line 206 compares the integer offset + 1 with the address
\* data_end and is never true.
RECURSIVE JavaLengthLoop(_, _, _)
JavaLengthLoop(m, offset, length) ==
    IF offset < 5 /\ ByteAt(m, offset) >= 128
    THEN JavaLengthLoop(m, offset + 1,
                        length \cup Shl(Bits(ByteAt(m, offset) % 128), 7 * offset))
    ELSE [offset |-> offset, length |-> length]

\* lines 197-217: the declared packet length and the offset behind it
JavaLength(m) ==
    LET byte == ByteAt(m, 0) IN
    IF byte >= 128
    THEN LET w == JavaLengthLoop(m, 1, Bits(byte % 128)) IN
         IF w.offset < 5
         THEN [offset |-> w.offset + 1,
               length |-> w.length \cup Shl(Bits(ByteAt(m, w.offset)), 7 * w.offset)]
         ELSE w
    ELSE [offset |-> 1, length |-> Bits(byte)]

\* lines 237-244: the continuation bytes of the protocol version.  offset is
\* the index into the whole buffer, and the shift is 7 * (offset - 1).  The
\* tests offset < data_end compare an integer with an address and always hold.
RECURSIVE JavaVersionLoop(_, _, _)
JavaVersionLoop(m, offset, ver) ==
    IF ~InMem(m, offset) \/ 7 * (offset - 1) >= 32
    THEN [ub |-> TRUE, ver |-> ver]
    ELSE IF ByteAt(m, offset) >= 128
    THEN JavaVersionLoop(m, offset + 1,
                         ver \cup Shl(Bits(ByteAt(m, offset) % 128), 7 * (offset - 1)))
    ELSE [ub |-> FALSE,
          ver |-> ver \cup Shl(Bits(ByteAt(m, offset)), 7 * (offset - 1))]

\* lines 232-247: the declared protocol version read at index `at`
JavaVersion(m, at) ==
    IF ~InMem(m, at) THEN [ub |-> TRUE, ver |-> {}]
    ELSE LET ver_byte == ByteAt(m, at) IN
         IF ver_byte >= 128
         THEN JavaVersionLoop(m, at + 1, Bits(ver_byte % 128))
         ELSE [ub |-> FALSE, ver |-> Bits(ver_byte)]

\* validate_minecraft_java(ctx, data, data_end): the set of results it can
\* return on memory m with data_end - data = len
validate_minecraft_java(m, len) ==
    IF 5 > len THEN {0}
    ELSE LET L == JavaLength(m) IN
         IF ~InRange(L.length, 5, 100) THEN {0}
         ELSE IF ~InMem(m, L.offset) THEN {0, 1}
         ELSE IF ByteAt(m, L.offset) # 0 THEN {0}
         ELSE LET V == JavaVersion(m, L.offset + 1) IN
              IF V.ub THEN {0, 1}
              ELSE IF InRange(V.ver, 4, 1000) THEN {1} ELSE {0}

\* the RakNet magic of lines 290-294 (pkt[1] .. pkt[16])
RakNetMagic ==
    <<0, 255, 255, 0, 254, 254, 254, 254, 253, 253, 253, 253, 18, 52, 86, 120>>

\* the packet types of lines 280-282
BedrockTags == {5, 6, 7, 8, 9, 16, 19, 21, 28}

\* the packet types of line 285
PingTags == {5, 21}

MagicAt(m) == \A k \in 1..16 : ByteAt(m, k) = RakNetMagic[k]

\* validate_minecraft_bedrock(ctx, data, data_end).  The return of line 300
\* is outside the `if` of line 285: a ping whose magic does not match falls
\* through to it.
validate_minecraft_bedrock(m, len) ==
    IF 4 > len THEN 0
    ELSE LET packet_type == ByteAt(m, 0) IN
         IF packet_type \in BedrockTags
         THEN IF packet_type \in PingTags /\ 17 > len THEN 0
              ELSE IF packet_type \in PingTags /\ MagicAt(m) THEN 1
              ELSE 1
         ELSE 0

(***************************************************************************)
(* Rate limiter.                                                           *)
(***************************************************************************)
SRC_RATE_MAX_ENTRIES == 100000

\* get_current_time(): the millisecond clock cut to 32 bits.  The clock of
\* this model stays below 2^31, where the cut changes nothing.
get_current_time(t) == t

\* lines 150-154: the refilled token count.  tokens stays far below 2^31 and
\* the refill is at most (2^32 - 1) / 1000, so the sum does not wrap.
RefillTokens(tokens, time_diff, rate_limit, burst_limit) ==
    LET new_tokens == tokens + Div1000(Mul32(time_diff, rate_limit)) IN
    IF new_tokens > burst_limit THEN burst_limit ELSE new_tokens

\* update_rate_limit(src_ip, rate_limit, burst_limit) on the table m at clock
\* value t: what it returns and the table it leaves
update_rate_limit(m, src_ip, rate_limit, burst_limit, t, max_entries) ==
    LET current_time == get_current_time(t) IN
    IF ~Has(m, src_ip)
    THEN IF CanInsert(m, src_ip, max_entries)
         THEN [ret |-> 1,
               map |-> Put(m, src_ip, [last_update |-> current_time,
                                       tokens |-> burst_limit,
                                       last_burst |-> 0])]
         ELSE [ret |-> -1, map |-> m]
    ELSE LET state == m[src_ip]
             time_diff == Sub32(current_time, state.last_update)
             new_tokens == RefillTokens(state.tokens, time_diff, rate_limit, burst_limit)
         IN IF new_tokens = 0
            THEN [ret |-> 0, map |-> [m EXCEPT ![src_ip].last_update = current_time]]
            ELSE [ret |-> 1,
                  map |-> [m EXCEPT ![src_ip].tokens = new_tokens - 1,
                                    ![src_ip].last_update = current_time]]

(***************************************************************************)
(* Counters: map_stats is an array map of STATS_MAX_ENTRIES slots; a       *)
(* lookup of an index outside it finds nothing.                            *)
(***************************************************************************)
STATS_MAX_ENTRIES == 10

STAT_ALLOWED_PACKETS == 0
STAT_BLOCKED_RATE_LIMIT == 1
STAT_BLOCKED_BLACKLIST == 2
STAT_BLOCKED_INVALID_PROTOCOL == 3
STAT_BLOCKED_CHALLENGE_FAILED == 4
STAT_BLOCKED_MAINTENANCE == 5
STAT_TOTAL_PACKETS == 6
STAT_XDP_DROP == 7
STAT_XDP_PASS == 8
STAT_XDP_REDIRECT == 9
STAT_UDP_CHALLENGES_SENT == 10
STAT_UDP_CHALLENGES_PASSED == 11

\* The mutant of update_stats: the slot is stored, not added to.
update_stats_store(stats, stat_type) ==
    IF stat_type \in DOMAIN stats
    THEN [stats EXCEPT ![stat_type] = 1]
    ELSE stats

\* update_stats(stat_type)
update_stats(stats, stat_type) ==
    IF stat_type \in DOMAIN stats
    THEN [stats EXCEPT ![stat_type] = @ + 1]
    ELSE stats

\* get_stats of the loader, one index: the value, or 0 when the lookup finds
\* nothing
get_stats(stats, i) == IF i \in DOMAIN stats THEN stats[i] ELSE 0

(***************************************************************************)
(* Challenge gate.                                                         *)
(***************************************************************************)
CHALLENGE_TIMEOUT_MS == 5000

CHALLENGE_DELAY_MS == 100

UDP_CHALLENGES_MAX_ENTRIES == 10000

\* lines 320-333: no challenge is stored for src_ip
issue_challenge(chal, stats, src_ip, current_time, max_entries) ==
    IF CanInsert(chal, src_ip, max_entries)
    THEN [ret |-> 0,
          chal |-> Put(chal, src_ip, [timestamp |-> current_time,
                                      challenge_sent |-> 1]),
          stats |-> update_stats(stats, STAT_UDP_CHALLENGES_SENT)]
    ELSE [ret |-> 0, chal |-> chal, stats |-> stats]

\* The mutant of handle_udp_challenge: the passed challenge is left in the
\* table.
handle_udp_challenge_keep(chal, stats, src_ip, len, current_time, max_entries) ==
    IF ~Has(chal, src_ip)
    THEN issue_challenge(chal, stats, src_ip, current_time, max_entries)
    ELSE IF current_time - chal[src_ip].timestamp > CHALLENGE_TIMEOUT_MS
    THEN issue_challenge(Del(chal, src_ip), stats, src_ip, current_time, max_entries)
    ELSE IF 8 > len
    THEN [ret |-> 0, chal |-> chal, stats |-> stats]
    ELSE IF current_time - chal[src_ip].timestamp > CHALLENGE_DELAY_MS
    THEN [ret |-> 1, chal |-> chal,
          stats |-> update_stats(stats, STAT_UDP_CHALLENGES_PASSED)]
    ELSE [ret |-> 0, chal |-> chal, stats |-> stats]

\* The mutant of handle_udp_challenge: the delay test of line 352 with >=.
handle_udp_challenge_ge(chal, stats, src_ip, len, current_time, max_entries) ==
    IF ~Has(chal, src_ip)
    THEN issue_challenge(chal, stats, src_ip, current_time, max_entries)
    ELSE IF current_time - chal[src_ip].timestamp > CHALLENGE_TIMEOUT_MS
    THEN issue_challenge(Del(chal, src_ip), stats, src_ip, current_time, max_entries)
    ELSE IF 8 > len
    THEN [ret |-> 0, chal |-> chal, stats |-> stats]
    ELSE IF current_time - chal[src_ip].timestamp >= CHALLENGE_DELAY_MS
    THEN [ret |-> 1, chal |-> Del(chal, src_ip),
          stats |-> update_stats(stats, STAT_UDP_CHALLENGES_PASSED)]
    ELSE [ret |-> 0, chal |-> chal, stats |-> stats]

\* handle_udp_challenge(src_ip, data, data_end) with data_end - data = len, on
\* the challenge table and the counters, at clock value current_time.  The
\* cookie (a function of the time and the address) is never read and is left
\* out.  The call of line 339 finds the entry deleted by line 338 and takes
\* the branch of lines 320-333.
handle_udp_challenge(chal, stats, src_ip, len, current_time, max_entries) ==
    IF ~Has(chal, src_ip)
    THEN issue_challenge(chal, stats, src_ip, current_time, max_entries)
    ELSE IF current_time - chal[src_ip].timestamp > CHALLENGE_TIMEOUT_MS
    THEN issue_challenge(Del(chal, src_ip), stats, src_ip, current_time, max_entries)
    ELSE IF 8 > len
    THEN [ret |-> 0, chal |-> chal, stats |-> stats]
    ELSE IF current_time - chal[src_ip].timestamp > CHALLENGE_DELAY_MS
    THEN [ret |-> 1, chal |-> Del(chal, src_ip),
          stats |-> update_stats(stats, STAT_UDP_CHALLENGES_PASSED)]
    ELSE [ret |-> 0, chal |-> chal, stats |-> stats]

(***************************************************************************)
(* Blacklist: source address -> the clock value until which it is blocked. *)
(* The filter reads the monotonic clock in milliseconds (line 176); the    *)
(* loader stamps entries with time(NULL) * 1000, the wall clock in whole   *)
(* seconds (loader.c line 169).  The wall clock read BootEpochSec when the *)
(* monotonic clock read 0.                                                 *)
(***************************************************************************)
BLACKLIST_MAX_ENTRIES == 50000

BootEpochSec == 1

\* time(NULL) when the monotonic clock reads t milliseconds
time_NULL(t) == BootEpochSec + (t \div 1000)

\* The mutant of is_blacklisted: the comparison of line 177 with <=.
is_blacklisted_le(bl, src_ip, current_time) ==
    IF ~Has(bl, src_ip) THEN [ret |-> 0, map |-> bl]
    ELSE IF current_time <= bl[src_ip] THEN [ret |-> 1, map |-> bl]
    ELSE [ret |-> 0, map |-> Del(bl, src_ip)]

\* is_blacklisted(src_ip) at monotonic clock value current_time
is_blacklisted(bl, src_ip, current_time) ==
    IF ~Has(bl, src_ip) THEN [ret |-> 0, map |-> bl]
    ELSE IF current_time < bl[src_ip] THEN [ret |-> 1, map |-> bl]
    ELSE [ret |-> 0, map |-> Del(bl, src_ip)]

\* add_to_blacklist(ip, duration_ms) of the loader, the monotonic clock
\* reading t.  The 64-bit sum stays far from wrapping in this model.
add_to_blacklist(bl, ip, duration_ms, t) ==
    LET block_until == time_NULL(t) * 1000 + duration_ms IN
    IF CanInsert(bl, ip, BLACKLIST_MAX_ENTRIES)
    THEN [ret |-> 0, map |-> Put(bl, ip, block_until)]
    ELSE [ret |-> -1, map |-> bl]

\* remove_from_blacklist(ip) of the loader
remove_from_blacklist(bl, ip) ==
    IF Has(bl, ip) THEN [ret |-> 0, map |-> Del(bl, ip)]
    ELSE [ret |-> -1, map |-> bl]

(***************************************************************************)
(* Endpoint registry: an LPM trie.  A key is prefix_len followed by the    *)
(* data ip, port, protocol; the trie compares the first prefix_len bits of *)
(* the data and nothing after them.  A node is a record [prefix_len, ip,   *)
(* port, protocol, info]; prefix_len is at most 32 here (the program uses  *)
(* 32 only), so the compared bits are the leading bits of ip.              *)
(***************************************************************************)
ENDPOINTS_MAX_ENTRIES == 10000

IpPrefix(ip, prefix_len) == ip \div (2 ^ (32 - prefix_len))

\* the node and the key agree on the first n bits of their data
SamePrefix(node, key, n) == IpPrefix(node.ip, n) = IpPrefix(key.ip, n)

\* the node's prefix covers the key
LpmCovers(node, key) ==
    /\ node.prefix_len <= key.prefix_len
    /\ SamePrefix(node, key, node.prefix_len)

\* bpf_map_lookup_elem on the trie: the covering nodes of longest prefix
\* (none, or one)
LpmLookup(trie, key) ==
    {n \in trie : /\ LpmCovers(n, key)
                  /\ \A o \in trie : LpmCovers(o, key) => o.prefix_len <= n.prefix_len}

\* the node a key names: same prefix_len, same first prefix_len bits
LpmSameNode(node, key) ==
    /\ node.prefix_len = key.prefix_len
    /\ SamePrefix(node, key, key.prefix_len)

\* bpf_map_update_elem on the trie with BPF_ANY
LpmUpdate(trie, key, info, max_entries) ==
    LET new == [prefix_len |-> key.prefix_len, ip |-> key.ip, port |-> key.port,
                protocol |-> key.protocol, info |-> info]
        old == {n \in trie : LpmSameNode(n, key)}
    IN IF old = {} /\ Cardinality(trie) >= max_entries
       THEN [ret |-> -1, trie |-> trie]
       ELSE [ret |-> 0, trie |-> (trie \ old) \cup {new}]

\* bpf_map_delete_elem on the trie
LpmDelete(trie, key) ==
    LET old == {n \in trie : LpmSameNode(n, key)} IN
    IF old = {} THEN [ret |-> -1, trie |-> trie]
    ELSE [ret |-> 0, trie |-> trie \ old]

\* add_protected_endpoint of the loader
add_protected_endpoint(trie, front_ip, front_port, protocol, origin_ip, origin_port, protocol_type, rate_limit, burst_limit) ==
    LpmUpdate(trie,
              [prefix_len |-> 32, ip |-> front_ip, port |-> front_port,
               protocol |-> protocol],
              [origin_ip |-> origin_ip, origin_port |-> origin_port,
               rate_limit |-> rate_limit, burst_limit |-> burst_limit,
               protocol_type |-> protocol_type, maintenance_mode |-> 0],
              ENDPOINTS_MAX_ENTRIES)

\* remove_protected_endpoint of the loader
remove_protected_endpoint(trie, front_ip, front_port, protocol) ==
    LpmDelete(trie, [prefix_len |-> 32, ip |-> front_ip, port |-> front_port,
                     protocol |-> protocol])

(***************************************************************************)
(* Flow table.  A 64-bit hash is the set of its one-bit positions.         *)
(***************************************************************************)
CONNTRACK_MAX_ENTRIES == 100000

\* the one-bits of a value below 2^31
BitsOf(x) == {i \in 0..30 : (x \div (2 ^ i)) % 2 = 1}

Shl64(S, n) == {i + n : i \in {j \in S : j + n < 64}}

\* hash_5tuple
hash_5tuple(src_ip, dst_ip, src_port, dst_port, protocol) ==
    Shl64(BitsOf(src_ip), 32) \cup BitsOf(dst_ip) \cup Shl64(BitsOf(src_port), 48)
        \cup Shl64(BitsOf(dst_port), 32) \cup Shl64(BitsOf(protocol), 24)

(***************************************************************************)
(* Frames.  A frame is a record of the header fields the program reads,    *)
(* the first bytes of the Ethernet header, the transport payload, and      *)
(* caplen = data_end - data.  FrameBytes is its byte image, the memory at  *)
(* `data`.                                                                 *)
(***************************************************************************)
ETH_HLEN == 14
IP_HLEN == 20
TCP_HLEN == 20
UDP_HLEN == 8
ETH_P_IP == 2048
IPPROTO_TCP == 6
IPPROTO_UDP == 17

U16Bytes(x) == <<(x \div 256) % 256, x % 256>>

U32Bytes(x) == <<(x \div 16777216) % 256, (x \div 65536) % 256,
                 (x \div 256) % 256, x % 256>>

SrcMac == <<2, 0, 0, 0, 0, 2>>

L4Bytes(f) ==
    IF f.protocol = IPPROTO_TCP
    THEN U16Bytes(f.sport) \o U16Bytes(f.dport) \o <<0, 0, 0, 1, 0, 0, 0, 1>>
             \o <<80, 24, 255, 255, 0, 0, 0, 0>>
    ELSE U16Bytes(f.sport) \o U16Bytes(f.dport)
             \o U16Bytes(UDP_HLEN + Len(f.payload)) \o <<0, 0>>

FrameBytes(f) ==
    f.dmac \o SrcMac \o U16Bytes(f.h_proto)
        \o <<69, 0>> \o U16Bytes(IP_HLEN + Len(L4Bytes(f)) + Len(f.payload))
        \o <<0, 0, 64, 0, 64, f.protocol, 0, 0>>
        \o U32Bytes(f.saddr) \o U32Bytes(f.daddr)
        \o L4Bytes(f) \o f.payload

\* the offset of the transport payload in the frame
PayloadOffset(f) ==
    ETH_HLEN + IP_HLEN + (IF f.protocol = IPPROTO_TCP THEN TCP_HLEN ELSE UDP_HLEN)

(***************************************************************************)
(* The XDP program.  S is the record of the tables: eps (registry), rate,  *)
(* conn (flow table), bl (blacklist), stats, chal.  The result is the set  *)
(* of records [verdict, S, bl_ret, resolved, rate_ret] the call can end    *)
(* with: the verdict, the tables it leaves, and what the blacklist filter, *)
(* the registry lookup and the rate limiter returned (-2: not called).     *)
(***************************************************************************)
XDP_DROP == "XDP_DROP"
XDP_PASS == "XDP_PASS"
XDP_REDIRECT == "XDP_REDIRECT"

NOT_CALLED == -2

XdpOut(verdict, S, bl_ret, resolved, rate_ret) ==
    [verdict |-> verdict, S |-> S, bl_ret |-> bl_ret, resolved |-> resolved,
     rate_ret |-> rate_ret]

Count(S, stat_type) == [S EXCEPT !.stats = update_stats(@, stat_type)]

\* lines 457-482: the flow entry, the admitted counter, the redirect.  The
\* result of the insert of line 478 is not looked at.
xdp_record_flow(S, f, caps) ==
    LET flow_hash == hash_5tuple(f.saddr, f.daddr, f.sport, f.dport, f.protocol)
        new_conn == [src_ip |-> f.saddr, dst_ip |-> f.daddr, src_port |-> f.sport,
                     dst_port |-> f.dport, protocol |-> f.protocol, state |-> 1,
                     challenge_id |-> 0]
        S1 == IF ~Has(S.conn, flow_hash) /\ CanInsert(S.conn, flow_hash, caps.conn)
              THEN [S EXCEPT !.conn = Put(@, flow_hash, new_conn)]
              ELSE S
    IN [verdict |-> XDP_REDIRECT, S |-> Count(S1, STAT_ALLOWED_PACKETS)]

\* the memory the validators are given: `data`, the start of the frame
ValidatedBytes(f) == FrameBytes(f)

\* lines 434-455: the validator of the endpoint's protocol family and, for
\* the datagram family, the challenge gate
xdp_validate(S, f, endpoint, t, caps) ==
    IF f.protocol = IPPROTO_TCP /\ endpoint.protocol_type = 0
    THEN {IF valid = 1 THEN xdp_record_flow(S, f, caps)
          ELSE [verdict |-> XDP_DROP, S |-> Count(S, STAT_BLOCKED_INVALID_PROTOCOL)]
          : valid \in validate_minecraft_java(ValidatedBytes(f), f.caplen)}
    ELSE IF /\ f.protocol = IPPROTO_UDP
            /\ endpoint.protocol_type = 1
            /\ validate_minecraft_bedrock(ValidatedBytes(f), f.caplen) # 0
    THEN LET c == handle_udp_challenge(S.chal, S.stats, f.saddr, f.caplen, t, caps.chal)
             S1 == [S EXCEPT !.chal = c.chal, !.stats = c.stats]
         IN IF c.ret = 0
            THEN {[verdict |-> XDP_DROP, S |-> Count(S1, STAT_BLOCKED_CHALLENGE_FAILED)]}
            ELSE {xdp_record_flow(S1, f, caps)}
    ELSE {[verdict |-> XDP_DROP, S |-> Count(S, STAT_BLOCKED_INVALID_PROTOCOL)]}

\* the flag test with the flag ignored
in_maintenance_ignored(endpoint) == FALSE

\* if (endpoint->maintenance_mode)
in_maintenance(endpoint) == endpoint.maintenance_mode # 0

\* lines 391-432: the registry lookup, the maintenance flag, the rate limiter
xdp_resolve(S, f, t, caps, bl_ret) ==
    IF f.protocol \notin {IPPROTO_TCP, IPPROTO_UDP}
    THEN {XdpOut(XDP_PASS, S, bl_ret, {}, NOT_CALLED)}
    ELSE IF PayloadOffset(f) > f.caplen
    THEN {XdpOut(XDP_DROP, S, bl_ret, {}, NOT_CALLED)}
    ELSE LET key == [prefix_len |-> 32, ip |-> f.daddr, port |-> f.dport,
                     protocol |-> f.protocol]
             found == LpmLookup(S.eps, key)
         IN IF found = {}
            THEN {XdpOut(XDP_PASS, S, bl_ret, {}, NOT_CALLED)}
            ELSE LET node == CHOOSE n \in found : TRUE
                     endpoint == node.info
                 IN IF in_maintenance(endpoint)
                    THEN {XdpOut(XDP_DROP, Count(S, STAT_BLOCKED_MAINTENANCE),
                                 bl_ret, found, NOT_CALLED)}
                    ELSE LET r == update_rate_limit(S.rate, f.saddr, endpoint.rate_limit,
                                                    endpoint.burst_limit, t, caps.rate)
                             S1 == [S EXCEPT !.rate = r.map]
                         IN IF r.ret < 0
                            THEN {XdpOut(XDP_DROP, S1, bl_ret, found, r.ret)}
                            ELSE IF r.ret = 0
                            THEN {XdpOut(XDP_DROP, Count(S1, STAT_BLOCKED_RATE_LIMIT),
                                         bl_ret, found, r.ret)}
                            ELSE {XdpOut(v.verdict, v.S, bl_ret, found, r.ret)
                                  : v \in xdp_validate(S1, f, endpoint, t, caps)}

\* xdp_minecraft_protection on frame f, the monotonic clock reading t
xdp_minecraft_protection(S, f, t, caps) ==
    LET S0 == Count(S, STAT_TOTAL_PACKETS) IN
    IF ETH_HLEN > f.caplen
    THEN {XdpOut(XDP_DROP, S0, NOT_CALLED, {}, NOT_CALLED)}
    ELSE IF f.h_proto # ETH_P_IP
    THEN {XdpOut(XDP_PASS, S0, NOT_CALLED, {}, NOT_CALLED)}
    ELSE IF ETH_HLEN + IP_HLEN > f.caplen
    THEN {XdpOut(XDP_DROP, S0, NOT_CALLED, {}, NOT_CALLED)}
    ELSE LET b == is_blacklisted(S0.bl, f.saddr, t)
             S1 == [S0 EXCEPT !.bl = b.map]
         IN IF b.ret # 0
            THEN {XdpOut(XDP_DROP, Count(S1, STAT_BLOCKED_BLACKLIST), b.ret, {},
                         NOT_CALLED)}
            ELSE xdp_resolve(S1, f, t, caps, b.ret)

\* the capacities of the tables the program inserts into
MaxEntries == [rate |-> SRC_RATE_MAX_ENTRIES, chal |-> UDP_CHALLENGES_MAX_ENTRIES,
               conn |-> CONNTRACK_MAX_ENTRIES]

(***************************************************************************)
(* The state after the program is loaded: the clock at 0, every table      *)
(* empty, nothing validated, nothing logged.                               *)
(***************************************************************************)
\* the CPUs that run the XDP program at the same time
MaxProcs == 2

Procs == 1..MaxProcs

\* a CPU that runs no invocation
Idle == [pc |-> "idle"]

InitTables ==
    /\ now = 0
    /\ inv = [p \in Procs |-> Idle]
    /\ map_src_rate = EmptyMap
    /\ map_udp_challenges = EmptyMap
    /\ map_stats = [i \in 0..(STATS_MAX_ENTRIES - 1) |-> 0]
    /\ map_protected_endpoints = {}
    /\ map_conntrack = EmptyMap
    /\ map_blacklist = EmptyMap
    /\ added = EmptyMap
    /\ log = <<>>
    /\ last = [op |-> "none"]

InitNoBuffer ==
    /\ mem = <<>>
    /\ buflen = 0
    /\ vkind = "none"
    /\ vret = -1

SrcIPs == {1, 2}

(***************************************************************************)
(* Specification SpecValidate: the two validators on bounded buffers.      *)
(***************************************************************************)
MemLen == 5

JavaBytes == {0, 3, 5, 101, 133, 248}

JavaInputs == [1..MemLen -> JavaBytes]

AlteredMagic(k) == [RakNetMagic EXCEPT ![k] = (@ + 1) % 256]

BedrockInputs ==
    {<<t>> \o b : t \in BedrockTags \cup {0, 153},
                  b \in {RakNetMagic} \cup {AlteredMagic(k) : k \in 1..16}}

InitValidate ==
    /\ mem \in JavaInputs \cup BedrockInputs
    /\ buflen \in {3, 4, 16} \cup {Len(mem)}
    /\ buflen <= Len(mem)
    /\ vkind = "none"
    /\ vret = -1
    /\ InitTables

JavaValidate ==
    /\ vkind = "none"
    /\ vkind' = "java"
    /\ vret' \in validate_minecraft_java(mem, buflen)
    /\ UNCHANGED <<inv, mem, buflen, now, tables, log, last>>

BedrockValidate ==
    /\ vkind = "none"
    /\ vkind' = "bedrock"
    /\ vret' = validate_minecraft_bedrock(mem, buflen)
    /\ UNCHANGED <<inv, mem, buflen, now, tables, log, last>>

NextValidate == JavaValidate \/ BedrockValidate

SpecValidate == InitValidate /\ [][NextValidate]_vars


(***************************************************************************)
(* The VarInt of the handshake protocol, decoded the standard way: 7 low   *)
(* bits per byte, high bit = continuation, little-endian accumulation, at  *)
(* most 5 bytes, all of them inside the buffer.                            *)
(***************************************************************************)
RECURSIVE StdVarInt(_, _, _, _, _)
StdVarInt(m, len, pos, n, acc) ==
    IF n = 5 \/ pos >= len
    THEN [ok |-> FALSE, val |-> acc, next |-> pos]
    ELSE LET b == ByteAt(m, pos)
             acc2 == acc \cup Shl(Bits(b % 128), 7 * n)
         IN IF b >= 128
            THEN StdVarInt(m, len, pos + 1, n + 1, acc2)
            ELSE [ok |-> TRUE, val |-> acc2, next |-> pos + 1]

StdHandshake(m, len) ==
    LET L == StdVarInt(m, len, 0, 0, {}) IN
    /\ L.ok
    /\ InRange(L.val, 5, 100)
    /\ L.next < len
    /\ ByteAt(m, L.next) = 0
    /\ LET V == StdVarInt(m, len, L.next + 1, 0, {}) IN
       V.ok /\ InRange(V.val, 4, 1000)

\* C2: validate_minecraft_java accepts a buffer exactly when its standard
\* decoding has a declared length in [5,100], a packet identifier 0 and a
\* declared protocol version in [4,1000] (stated for the buffers of at least
\* the 5 bytes line 191 asks for).
C2_JavaAcceptsExactlyWellFormed ==
    (vkind = "java" /\ buflen >= 5) => (vret = 1 <=> StdHandshake(mem, buflen))

\* C3: validate_minecraft_bedrock accepts only a buffer whose first byte is
\* one of the nine tags and, for a ping tag, whose next 16 bytes are the
\* magic sequence.
C3_BedrockAcceptsOnlyTagAndMagic ==
    (vkind = "bedrock" /\ vret = 1) =>
        /\ ByteAt(mem, 0) \in BedrockTags
        /\ ByteAt(mem, 0) \in PingTags => (buflen >= 17 /\ MagicAt(mem))


(***************************************************************************)
(* Specification SpecRate: update_rate_limit called for packets of the     *)
(* sources, each for an endpoint with its own rate and burst limit, while  *)
(* the clock advances between the calls.                                   *)
(***************************************************************************)
MaxBurst == 2

MaxRateOps == 4

RateLimits == {1, 1000}

BurstLimits == 0..MaxBurst

\* one second, and the least gap whose product with rate_limit 1000 passes 2^32
RateSteps == {1000, 4294968}

RatePacket(src, rate_limit, burst_limit) ==
    /\ Len(log) < MaxRateOps
    /\ LET r == update_rate_limit(map_src_rate, src, rate_limit, burst_limit,
                                  now, SRC_RATE_MAX_ENTRIES)
       IN /\ map_src_rate' = r.map
          /\ log' = Append(log, [op |-> "rate", src |-> src, t |-> now,
                                 rate_limit |-> rate_limit,
                                 burst_limit |-> burst_limit, ret |-> r.ret,
                                 pre |-> map_src_rate, post |-> r.map])
    /\ UNCHANGED <<inv, valVars, now, map_udp_challenges, map_stats,
                   ctlTables, last>>

RateTick(d) ==
    /\ Len(log) < MaxRateOps
    /\ log # <<>>
    /\ log[Len(log)].t = now
    /\ now' = now + d
    /\ UNCHANGED <<inv, valVars, tables, log, last>>

InitRate == InitNoBuffer /\ InitTables

NextRate ==
    \/ \E src \in SrcIPs, rl \in RateLimits, bl \in BurstLimits : RatePacket(src, rl, bl)
    \/ \E d \in RateSteps : RateTick(d)

SpecRate == InitRate /\ [][NextRate]_vars

\* the calls of update_rate_limit for source s, oldest first
RateLog(s) == SelectSeq(log, LAMBDA e : e.op = "rate" /\ e.src = s)

\* the first i calls for a source are one burst: same endpoint limits, and
\* no time between them
OneBurst(L, i) ==
    \A j \in 1..i : /\ L[j].t = L[1].t
                    /\ L[j].rate_limit = L[1].rate_limit
                    /\ L[j].burst_limit = L[1].burst_limit

\* C1: of the packets a new source sends in one instant to one endpoint
\* (burst_limit >= 1), the first burst_limit are allowed and the
\* (burst_limit+1)-th is the first one denied.
C1_BurstAllowsExactlyBurstLimit ==
    \A s \in SrcIPs :
        LET L == RateLog(s) IN
        \A i \in 1..Len(L) :
            (OneBurst(L, i) /\ L[1].burst_limit >= 1)
                => (L[i].ret = 1 <=> i <= L[1].burst_limit)


\* C11: the token count stored for a source is at most the burst limit of
\* the endpoint whose packet last updated the source's rate state, whether
\* that packet was allowed or denied.
C11_TokensWithinLastBurstLimit ==
    \A s \in SrcIPs :
        LET L == RateLog(s) IN
        (L # <<>> /\ Has(map_src_rate, s))
            => map_src_rate[s].tokens <= L[Len(L)].burst_limit

\* the calls for a source were all for one endpoint (rate_limit >= 1,
\* burst_limit >= 1) and came slower than rate_limit per second: every gap
\* is longer than 1000 / rate_limit ms
SlowerThanRate(L) ==
    /\ L # <<>>
    /\ L[1].rate_limit >= 1
    /\ L[1].burst_limit >= 1
    /\ \A j \in 1..Len(L) : /\ L[j].rate_limit = L[1].rate_limit
                            /\ L[j].burst_limit = L[1].burst_limit
    /\ \A j \in 1..(Len(L) - 1) : L[j + 1].t - L[j].t > 1000 \div L[1].rate_limit

\* C12: every packet of a source that sends to one endpoint slower than the
\* endpoint's rate_limit is allowed by the rate limiter.
C12_SlowSourceAlwaysAllowed ==
    \A s \in SrcIPs :
        LET L == RateLog(s) IN
        SlowerThanRate(L) => \A j \in 1..Len(L) : L[j].ret = 1

\* floor(elapsed_ms * rate_limit / 1000) over the unbounded integers
ExactRefill(elapsed_ms, rate_limit) ==
    (elapsed_ms \div 1000) * rate_limit + ((elapsed_ms % 1000) * rate_limit) \div 1000

\* min(burst_limit, tokens + floor(elapsed_ms * rate_limit / 1000))
ExactTokens(tokens, elapsed_ms, rate_limit, burst_limit) ==
    LET n == tokens + ExactRefill(elapsed_ms, rate_limit) IN
    IF n > burst_limit THEN burst_limit ELSE n

\* C13: the token count after refill is min(burst_limit, tokens +
\* floor(elapsed_ms * rate_limit / 1000)) over the unbounded integers: a call
\* that finds rate state is allowed exactly when that count is at least 1,
\* and then stores that count less the token it spends.
C13_RefillDoesNotWrap ==
    \A i \in 1..Len(log) :
        LET e == log[i] IN
        (e.op = "rate" /\ Has(e.pre, e.src)) =>
            LET st == e.pre[e.src]
                exact == ExactTokens(st.tokens, e.t - st.last_update,
                                     e.rate_limit, e.burst_limit)
            IN /\ e.ret = 1 <=> exact >= 1
               /\ e.ret = 1 => e.post[e.src].tokens = exact - 1

(***************************************************************************)
(* Specification SpecChallenge: the challenge gate on the validated        *)
(* datagram packets of the sources, one at a time, the clock advancing     *)
(* between them.                                                           *)
(***************************************************************************)
MaxChallengeOps == 4

ChallengeSteps == {100, 101, 5000, 5001}

\* the least frame that reaches the gate: Ethernet, IPv4 and UDP headers
UdpFrameLen == 42

\* one gate call for a packet of src, the challenge table of max_entries
ChallengePacketWith(src, max_entries) ==
    /\ Len(log) < MaxChallengeOps
    /\ LET r == handle_udp_challenge(map_udp_challenges, map_stats, src,
                                     UdpFrameLen, now, max_entries)
       IN /\ map_udp_challenges' = r.chal
          /\ log' = Append(log, [op |-> "challenge", src |-> src, t |-> now,
                                 ret |-> r.ret])
          /\ map_stats' = r.stats
          /\ last' = [op |-> "challenge", src |-> src, t |-> now, ret |-> r.ret,
                      pre |-> [chal |-> map_udp_challenges, stats |-> map_stats],
                      post |-> [chal |-> r.chal, stats |-> r.stats]]
    /\ UNCHANGED <<inv, valVars, now, map_src_rate, ctlTables>>

ChallengePacket(src) == ChallengePacketWith(src, UDP_CHALLENGES_MAX_ENTRIES)

ChallengeTick(d) ==
    /\ Len(log) < MaxChallengeOps
    /\ last.op = "challenge"
    /\ last.t = now
    /\ now' = now + d
    /\ UNCHANGED <<inv, valVars, tables, log, last>>

InitChallenge == InitNoBuffer /\ InitTables

NextChallenge ==
    \/ \E src \in SrcIPs : ChallengePacket(src)
    \/ \E d \in ChallengeSteps : ChallengeTick(d)

SpecChallenge == InitChallenge /\ [][NextChallenge]_vars


\* the age of the challenge the last gate call found for its source
ChallengeAge == last.t - last.pre.chal[last.src].timestamp

\* the last gate call stored a fresh challenge for its source
ChallengeIssued ==
    /\ Has(last.post.chal, last.src)
    /\ last.post.chal[last.src].timestamp = last.t
    /\ (Has(last.pre.chal, last.src) => ChallengeAge > CHALLENGE_TIMEOUT_MS)

\* the last gate call left the challenges of the other sources alone
OtherChallengesKept ==
    \A o \in SrcIPs \ {last.src} :
        /\ Has(last.pre.chal, o) <=> Has(last.post.chal, o)
        /\ Has(last.pre.chal, o) => last.post.chal[o] = last.pre.chal[o]

C5_ChallengeCountersCount ==
    last.op = "challenge" =>
        /\ ChallengeIssued =>
             get_stats(last.post.stats, STAT_UDP_CHALLENGES_SENT)
                 = get_stats(last.pre.stats, STAT_UDP_CHALLENGES_SENT) + 1
        /\ last.ret = 1 =>
             get_stats(last.post.stats, STAT_UDP_CHALLENGES_PASSED)
                 = get_stats(last.pre.stats, STAT_UDP_CHALLENGES_PASSED) + 1

(***************************************************************************)
(* The program on the wire: packets through xdp_minecraft_protection, the  *)
(* loader's map functions, and the clock.                                  *)
(***************************************************************************)
MaxPackets == 3
MaxClock == 3000

\* the tables as the record the XDP program works on
Tables ==
    [eps |-> map_protected_endpoints, rate |-> map_src_rate,
     conn |-> map_conntrack, bl |-> map_blacklist, stats |-> map_stats,
     chal |-> map_udp_challenges]

\* one run of the XDP program on frame f, the tables of capacities caps
PacketWith(f, caps) ==
    /\ get_stats(map_stats, STAT_TOTAL_PACKETS) < MaxPackets
    /\ \E r \in xdp_minecraft_protection(Tables, f, now, caps) :
          /\ map_protected_endpoints' = r.S.eps
          /\ map_src_rate' = r.S.rate
          /\ map_conntrack' = r.S.conn
          /\ map_blacklist' = r.S.bl
          /\ map_stats' = r.S.stats
          /\ map_udp_challenges' = r.S.chal
          /\ added' = [a \in DOMAIN added \cap DOMAIN r.S.bl |-> added[a]]
          /\ last' = [op |-> "packet", f |-> f, t |-> now, verdict |-> r.verdict,
                      bl_ret |-> r.bl_ret, resolved |-> r.resolved,
                      rate_ret |-> r.rate_ret, pre |-> Tables, post |-> r.S,
                      added |-> added]
    /\ UNCHANGED <<inv, valVars, now, log>>

\* one run of the XDP program on frame f
Packet(f) == PacketWith(f, MaxEntries)

\* the loader's add_to_blacklist(ip, duration_ms)
BlacklistAdd(ip, duration_ms) ==
    /\ LET r == add_to_blacklist(map_blacklist, ip, duration_ms, now)
       IN /\ map_blacklist' = r.map
          /\ added' = IF r.ret = 0
                      THEN Put(added, ip, [T |-> now, D |-> duration_ms])
                      ELSE added
          /\ last' = [op |-> "add_to_blacklist", ip |-> ip, t |-> now,
                      duration_ms |-> duration_ms, ret |-> r.ret]
    /\ UNCHANGED <<inv, valVars, now, map_src_rate, map_udp_challenges,
                   map_stats, map_protected_endpoints, map_conntrack, log>>

\* the loader's remove_from_blacklist(ip)
BlacklistRemove(ip) ==
    /\ LET r == remove_from_blacklist(map_blacklist, ip)
       IN /\ map_blacklist' = r.map
          /\ added' = [a \in DOMAIN added \cap DOMAIN r.map |-> added[a]]
          /\ last' = [op |-> "remove_from_blacklist", ip |-> ip, t |-> now,
                      ret |-> r.ret]
    /\ UNCHANGED <<inv, valVars, now, map_src_rate, map_udp_challenges,
                   map_stats, map_protected_endpoints, map_conntrack, log>>

\* the loader's add_protected_endpoint with the arguments of record c
AddEndpoint(c) ==
    /\ LET r == add_protected_endpoint(map_protected_endpoints, c.front_ip,
                                       c.front_port, c.protocol, c.origin_ip,
                                       c.origin_port, c.protocol_type,
                                       c.rate_limit, c.burst_limit)
       IN /\ map_protected_endpoints' = r.trie
          /\ last' = [op |-> "add_protected_endpoint", c |-> c, t |-> now,
                      ret |-> r.ret, pre |-> map_protected_endpoints,
                      post |-> r.trie]
    /\ UNCHANGED <<inv, valVars, now, map_src_rate, map_udp_challenges,
                   map_stats, map_conntrack, map_blacklist, added, log>>

\* the loader's remove_protected_endpoint
RemoveEndpoint(front_ip, front_port, protocol) ==
    /\ LET r == remove_protected_endpoint(map_protected_endpoints, front_ip,
                                          front_port, protocol)
       IN /\ map_protected_endpoints' = r.trie
          /\ last' = [op |-> "remove_protected_endpoint", front_ip |-> front_ip,
                      front_port |-> front_port, protocol |-> protocol,
                      t |-> now, ret |-> r.ret, pre |-> map_protected_endpoints,
                      post |-> r.trie]
    /\ UNCHANGED <<inv, valVars, now, map_src_rate, map_udp_challenges,
                   map_stats, map_conntrack, map_blacklist, added, log>>

\* the clock advances by d milliseconds
Tick(d) ==
    /\ now + d <= MaxClock
    /\ now' = now + d
    /\ UNCHANGED <<inv, valVars, tables, log, last>>

(***************************************************************************)
(* The frames of the specifications below.                                 *)
(***************************************************************************)
JAVA_PORT == 25565
BEDROCK_PORT == 19132
ClientPort == 40000
FrontIPs == {10, 11}

\* a destination MAC whose bytes read as a handshake, and one whose bytes
\* do not
HandshakeLikeMac == <<5, 0, 4, 0, 0, 1>>
PlainMac == <<2, 0, 0, 0, 0, 1>>

\* a handshake of declared length 5, identifier 0, version 4; a ping tag
\* followed by the magic; bytes that are neither
HandshakePayload == <<5, 0, 4, 0, 0>>
PingPayload == <<5>> \o RakNetMagic
JunkPayload == <<255, 255, 255, 255, 255>>

Frame(dmac, saddr, daddr, protocol, dport, payload) ==
    LET f == [caplen |-> 0, dmac |-> dmac, h_proto |-> ETH_P_IP, saddr |-> saddr,
              daddr |-> daddr, protocol |-> protocol, sport |-> ClientPort,
              dport |-> dport, payload |-> payload]
    IN [f EXCEPT !.caplen = Len(FrameBytes(f))]

TcpFrames ==
    {Frame(dmac, s, d, IPPROTO_TCP, JAVA_PORT, pl) :
        dmac \in {HandshakeLikeMac, PlainMac}, s \in SrcIPs, d \in FrontIPs,
        pl \in {HandshakePayload, JunkPayload}}

UdpFrames ==
    {Frame(dmac, s, d, IPPROTO_UDP, BEDROCK_PORT, pl) :
        dmac \in {HandshakeLikeMac, PlainMac}, s \in SrcIPs, d \in FrontIPs,
        pl \in {PingPayload, JunkPayload}}

\* a frame cut inside the Ethernet header, one cut inside the IP header, one
\* cut inside the TCP header, an IPv6 frame and an ICMP packet
OtherFrames ==
    LET f == Frame(PlainMac, 1, 10, IPPROTO_TCP, JAVA_PORT, HandshakePayload) IN
    {[f EXCEPT !.caplen = 10], [f EXCEPT !.caplen = 30], [f EXCEPT !.caplen = 40],
     [f EXCEPT !.h_proto = 34525], [f EXCEPT !.protocol = 1]}

\* every frame of the first source, and the second source's frames that
\* reach a validator's accepting path at the registered address
Frames ==
    {f \in TcpFrames \cup UdpFrames :
        f.saddr = 1 \/ (f.dmac = HandshakeLikeMac /\ f.daddr = 10)}
        \cup OtherFrames

\* the frame is a whole IPv4 TCP or UDP packet
WellFormed(f) ==
    /\ f.h_proto = ETH_P_IP
    /\ f.protocol \in {IPPROTO_TCP, IPPROTO_UDP}
    /\ f.caplen = Len(FrameBytes(f))

(***************************************************************************)
(* SpecBlacklist: the blacklist filter under the loader's add and remove,  *)
(* with packets to addresses the registry does not hold.                   *)
(***************************************************************************)
Durations == {0, 500}
BlacklistSteps == {500}

BlacklistFrames ==
    {f \in TcpFrames : f.dmac = PlainMac /\ f.payload = JunkPayload}

InitBlacklist == InitNoBuffer /\ InitTables

NextBlacklist ==
    \/ \E ip \in SrcIPs, D \in Durations : BlacklistAdd(ip, D)
    \/ \E ip \in SrcIPs : BlacklistRemove(ip)
    \/ \E f \in BlacklistFrames : Packet(f)
    \/ \E d \in BlacklistSteps : Tick(d)

SpecBlacklist == InitBlacklist /\ [][NextBlacklist]_vars

\* the last step was a packet that reached the blacklist filter
BlacklistChecked == last.op = "packet" /\ last.bl_ret # NOT_CALLED

C10_BlacklistFilterPolicy ==
    BlacklistChecked =>
        LET src == last.f.saddr
            pre == last.pre.bl
            post == last.post.bl
        IN /\ last.bl_ret = 1 <=> (Has(pre, src) /\ last.t < pre[src])
           /\ last.bl_ret \in {0, 1}
           /\ (Has(pre, src) /\ last.t >= pre[src]) => ~Has(post, src)
           /\ ~Has(pre, src) => post = pre
           /\ \A o \in DOMAIN pre \ {src} : Has(post, o) /\ post[o] = pre[o]

\* C10 witness: a packet checked at the very millisecond of its source's
\* block-until was not blocked and its entry removed, while the entry of
\* another address stayed.
C10_Witness ==
    /\ BlacklistChecked
    /\ Has(last.pre.bl, last.f.saddr)
    /\ last.t = last.pre.bl[last.f.saddr]
    /\ last.bl_ret = 0
    /\ ~Has(last.post.bl, last.f.saddr)
    /\ \E o \in SrcIPs \ {last.f.saddr} : Has(last.post.bl, o)

(***************************************************************************)
(* SpecPipeline: the whole program, with the registry, the blacklist and   *)
(* the clock under the loader's control.                                   *)
(***************************************************************************)
OriginIP == 100
PipelineSteps == {3000}
PipelineDurations == {500}

EndpointConfigs ==
    {[front_ip |-> 10, front_port |-> JAVA_PORT, protocol |-> IPPROTO_TCP,
      origin_ip |-> OriginIP, origin_port |-> JAVA_PORT, protocol_type |-> 0,
      rate_limit |-> 1, burst_limit |-> 1],
     [front_ip |-> 10, front_port |-> BEDROCK_PORT, protocol |-> IPPROTO_UDP,
      origin_ip |-> OriginIP, origin_port |-> BEDROCK_PORT, protocol_type |-> 1,
      rate_limit |-> 1, burst_limit |-> 1]}

InitPipeline == InitNoBuffer /\ InitTables

NextPipeline ==
    \/ \E c \in EndpointConfigs : AddEndpoint(c)
    \/ \E c \in EndpointConfigs :
          RemoveEndpoint(c.front_ip, c.front_port, c.protocol)
    \/ \E ip \in SrcIPs, D \in PipelineDurations : BlacklistAdd(ip, D)
    \/ \E ip \in SrcIPs : BlacklistRemove(ip)
    \/ \E f \in Frames : Packet(f)
    \/ \E d \in PipelineSteps : Tick(d)

SpecPipeline == InitPipeline /\ [][NextPipeline]_vars

\* the registry entries whose address prefix covers the frame's destination
\* address and whose port and protocol are the frame's
ExactEntries(trie, f) ==
    {n \in trie : /\ n.prefix_len <= 32
                  /\ IpPrefix(n.ip, n.prefix_len) = IpPrefix(f.daddr, n.prefix_len)
                  /\ n.port = f.dport
                  /\ n.protocol = f.protocol}

LongestExact(trie, f) ==
    {n \in ExactEntries(trie, f) :
        \A o \in ExactEntries(trie, f) : o.prefix_len <= n.prefix_len}

\* the last step was an IPv4 TCP or UDP packet that passed the blacklist
\* filter
Resolving == last.op = "packet" /\ WellFormed(last.f) /\ last.bl_ret = 0

\* the counters of the protected traffic
ProtectedCounters ==
    {STAT_ALLOWED_PACKETS, STAT_BLOCKED_RATE_LIMIT, STAT_BLOCKED_BLACKLIST,
     STAT_BLOCKED_INVALID_PROTOCOL, STAT_BLOCKED_CHALLENGE_FAILED,
     STAT_BLOCKED_MAINTENANCE}

\* C6: a TCP packet to a registered handshake-family endpoint (maintenance
\* off) from a source that is not blacklisted and within its rate limit,
\* whose transport payload is a well-formed handshake, is forwarded, raises
\* the admitted counter by 1 and has a flow entry afterwards, whatever the
\* bytes of its link-layer header.
C6_HandshakePayloadAdmitted ==
    (/\ Resolving
     /\ last.f.protocol = IPPROTO_TCP
     /\ \E n \in LongestExact(last.pre.eps, last.f) :
           n.info.protocol_type = 0 /\ n.info.maintenance_mode = 0
     /\ last.rate_ret = 1
     /\ StdHandshake(last.f.payload, Len(last.f.payload)))
    => /\ last.verdict = XDP_REDIRECT
       /\ get_stats(last.post.stats, STAT_ALLOWED_PACKETS)
              = get_stats(last.pre.stats, STAT_ALLOWED_PACKETS) + 1
       /\ Has(last.post.conn,
              hash_5tuple(last.f.saddr, last.f.daddr, last.f.sport,
                          last.f.dport, last.f.protocol))

\* C7: an IPv4 TCP or UDP packet whose destination (address, port,
\* protocol) has no registry entry is passed through and leaves the blocked
\* counters, the admitted counter, the rate state, the challenge state and
\* the flow table as they were (stated for the sources without a blacklist
\* entry).
C7_UnmanagedPassThrough ==
    (/\ last.op = "packet"
     /\ WellFormed(last.f)
     /\ ~Has(last.pre.bl, last.f.saddr)
     /\ ExactEntries(last.pre.eps, last.f) = {})
    => /\ last.verdict = XDP_PASS
       /\ \A c \in ProtectedCounters :
             get_stats(last.post.stats, c) = get_stats(last.pre.stats, c)
       /\ last.post.rate = last.pre.rate
       /\ last.post.chal = last.pre.chal
       /\ last.post.conn = last.pre.conn

\* C8: the policy the pipeline uses is that of the registry entry of longest
\* address prefix among those whose port and protocol are the packet's; a
\* packet with no such entry is passed through; adding an entry leaves the
\* entries of every other (address, port, protocol) in place.
C8_EndpointResolution ==
    /\ Resolving =>
          /\ last.resolved = LongestExact(last.pre.eps, last.f)
          /\ LongestExact(last.pre.eps, last.f) = {} => last.verdict = XDP_PASS
    /\ (last.op = "add_protected_endpoint" /\ last.ret = 0) =>
          \A n \in last.pre :
              (<<n.ip, n.port, n.protocol>>
                   # <<last.c.front_ip, last.c.front_port, last.c.protocol>>)
              => n \in last.post

\* the reason counters of a drop
ReasonCounters == ProtectedCounters \ {STAT_ALLOWED_PACKETS}

\* C14: a packet the pipeline drops has raised exactly one reason counter,
\* by 1, and left the other reason counters as they were.
C14_EveryDropHasReason ==
    (last.op = "packet" /\ last.verdict = XDP_DROP) =>
        \E c \in ReasonCounters :
            /\ get_stats(last.post.stats, c) = get_stats(last.pre.stats, c) + 1
            /\ \A o \in ReasonCounters \ {c} :
                  get_stats(last.post.stats, o) = get_stats(last.pre.stats, o)

(***************************************************************************)
(* SpecCapacity: the program with tables of MaxTableEntries entries, so    *)
(* that they fill up.                                                      *)
(***************************************************************************)
MaxTableEntries == 1

\* the rate table is the larger one, as in the program
SmallEntries ==
    [rate |-> MaxTableEntries + 1, chal |-> MaxTableEntries,
     conn |-> MaxTableEntries]

CapacitySrcIPs == SrcIPs \cup {3}

\* frames that the validators accept, to the registered address
CapacityFrames ==
    {Frame(HandshakeLikeMac, s, 10, IPPROTO_TCP, JAVA_PORT, HandshakePayload) :
        s \in CapacitySrcIPs}
    \cup {Frame(HandshakeLikeMac, s, 10, IPPROTO_UDP, BEDROCK_PORT, PingPayload) :
              s \in CapacitySrcIPs}

CapacitySteps == {3000}

InitCapacity == InitNoBuffer /\ InitTables

NextCapacity ==
    \/ \E c \in EndpointConfigs : AddEndpoint(c)
    \/ \E f \in CapacityFrames : PacketWith(f, SmallEntries)
    \/ \E d \in CapacitySteps : Tick(d)

SpecCapacity == InitCapacity /\ [][NextCapacity]_vars

\* the counter c was raised by the last packet
Raised(c) == get_stats(last.post.stats, c) = get_stats(last.pre.stats, c) + 1

FlowHash(f) == hash_5tuple(f.saddr, f.daddr, f.sport, f.dport, f.protocol)

\* the rate state of the packet's source could not be inserted
RateInsertFailed == last.rate_ret = -1

\* the gate refused the packet and left no challenge for its source: the
\* challenge could not be inserted
ChallengeInsertFailed ==
    Raised(STAT_BLOCKED_CHALLENGE_FAILED) /\ ~Has(last.post.chal, last.f.saddr)

\* the packet passed the rate limiter, the validator and the gate, its flow
\* was not in the flow table and the table was full
FlowInsertFailed ==
    /\ last.rate_ret = 1
    /\ ~Raised(STAT_BLOCKED_INVALID_PROTOCOL)
    /\ ~Raised(STAT_BLOCKED_CHALLENGE_FAILED)
    /\ ~Has(last.pre.conn, FlowHash(last.f))
    /\ Cardinality(DOMAIN last.pre.conn) >= SmallEntries.conn

\* C15: a packet for which the insert of its rate state, of its challenge
\* or of its flow entry failed on a full table is dropped, never forwarded.
C15_FailClosedOnFullTable ==
    (last.op = "packet"
        /\ (RateInsertFailed \/ ChallengeInsertFailed \/ FlowInsertFailed))
    => last.verdict = XDP_DROP

(***************************************************************************)
(* Concurrent invocations.  The XDP program runs on several CPUs at once,  *)
(* on the same tables.  An invocation is cut at its accesses to the tables *)
(* and to the clock: each action below is one map helper call, or one read *)
(* or write through the pointer a lookup returned, together with the local *)
(* computation that follows it.  inv[p] holds the position (pc) and the    *)
(* locals of the invocation on CPU p; a return appends to log the verdict  *)
(* and what the invocation saw: what update_rate_limit returned            *)
(* (rate_ret), the elapsed time it computed (time_diff) and the time that  *)
(* had passed since the last_update it read (real_diff), and how often it  *)
(* entered the challenge gate again (reentries).                           *)
(***************************************************************************)
MaxReentries == 2

Busy == {p \in Procs : inv[p].pc # "idle"}

Returned == SelectSeq(log, LAMBDA e : e.op = "return")

\* the invocation on CPU p goes on as record r says: to position r.pc, or,
\* at "return", out of the program with verdict r.verdict.  overlap tells whether another CPU was inside the
\* program when this invocation entered it.
Step(p, r) ==
    IF r.pc = "return"
    THEN /\ inv' = [inv EXCEPT ![p] = Idle]
         /\ log' = log \o <<[op |-> "return", cpu |-> p, f |-> r.f,
                             verdict |-> r.verdict, rate_ret |-> r.rate_ret,
                             time_diff |-> r.time_diff,
                             real_diff |-> r.real_diff,
                             reentries |-> r.reentries,
                             overlap |-> r.overlap]>>
    ELSE /\ inv' = [inv EXCEPT ![p] = r]
         /\ log' = log

Leave(me, verdict) == [me EXCEPT !.pc = "return", !.verdict = verdict]

\* update_stats(stat) and return verdict are what is left to do
CountThenLeave(me, stat, verdict) ==
    [me EXCEPT !.pc = "count", !.stat = stat, !.verdict = verdict]

exceptStats ==
    <<map_src_rate, map_udp_challenges, map_protected_endpoints, map_conntrack,
      map_blacklist, added>>

exceptRate ==
    <<map_stats, map_udp_challenges, map_protected_endpoints, map_conntrack,
      map_blacklist, added>>

exceptGate ==
    <<map_src_rate, map_protected_endpoints, map_conntrack, map_blacklist, added>>

exceptConn ==
    <<map_src_rate, map_stats, map_udp_challenges, map_protected_endpoints,
      map_blacklist, added>>

allTables ==
    <<map_src_rate, map_stats, map_udp_challenges, map_protected_endpoints,
      map_conntrack, map_blacklist, added>>

\* lines 366-383: a frame arrives on CPU p; the total counter, the Ethernet
\* and the IP header
Enter(p, f) ==
    /\ inv[p].pc = "idle"
    /\ Len(Returned) + Cardinality(Busy) < MaxPackets
    /\ map_stats' = update_stats(map_stats, STAT_TOTAL_PACKETS)
    /\ LET me == [pc |-> "blacklist", f |-> f, current_time |-> 0,
                  endpoint |-> {}, new_tokens |-> 0, time_diff |-> <<0, 0>>,
                  real_diff |-> 0, rate_ret |-> NOT_CALLED, reentries |-> 0,
                  stat |-> -1,
                  verdict |-> "none", overlap |-> Busy # {}]
       IN IF ETH_HLEN > f.caplen THEN Step(p, Leave(me, XDP_DROP))
          ELSE IF f.h_proto # ETH_P_IP THEN Step(p, Leave(me, XDP_PASS))
          ELSE IF ETH_HLEN + IP_HLEN > f.caplen
          THEN Step(p, Leave(me, XDP_DROP))
          ELSE Step(p, me)
    /\ UNCHANGED <<valVars, now, exceptStats, last>>

\* lines 172-178: the lookup in the blacklist, the clock, the comparison
CheckBlacklist(p) ==
    LET me == inv[p]
        src == me.f.saddr
    IN /\ me.pc = "blacklist"
       /\ IF ~Has(map_blacklist, src)
          THEN Step(p, [me EXCEPT !.pc = "resolve"])
          ELSE IF now < map_blacklist[src]
          THEN Step(p, CountThenLeave(me, STAT_BLOCKED_BLACKLIST, XDP_DROP))
          ELSE Step(p, [me EXCEPT !.pc = "unblock"])
       /\ UNCHANGED <<valVars, now, allTables, last>>

\* lines 180-182: the expired entry is deleted
DeleteExpiredBlock(p) ==
    LET me == inv[p] IN
    /\ me.pc = "unblock"
    /\ map_blacklist' = Del(map_blacklist, me.f.saddr)
    /\ added' = [a \in DOMAIN added \ {me.f.saddr} |-> added[a]]
    /\ Step(p, [me EXCEPT !.pc = "resolve"])
    /\ UNCHANGED <<valVars, now, map_src_rate, map_stats, map_udp_challenges,
                   map_protected_endpoints, map_conntrack, last>>

\* lines 391-423: the transport header, the registry lookup, the
\* maintenance flag
ResolveEndpoint(p) ==
    LET me == inv[p]
        f == me.f
        key == [prefix_len |-> 32, ip |-> f.daddr, port |-> f.dport,
                protocol |-> f.protocol]
        found == LpmLookup(map_protected_endpoints, key)
    IN /\ me.pc = "resolve"
       /\ IF f.protocol \notin {IPPROTO_TCP, IPPROTO_UDP}
          THEN Step(p, Leave(me, XDP_PASS))
          ELSE IF PayloadOffset(f) > f.caplen
          THEN Step(p, Leave(me, XDP_DROP))
          ELSE IF found = {} THEN Step(p, Leave(me, XDP_PASS))
          ELSE LET endpoint == (CHOOSE n \in found : TRUE).info IN
               IF in_maintenance(endpoint)
               THEN Step(p, CountThenLeave(me, STAT_BLOCKED_MAINTENANCE, XDP_DROP))
               ELSE Step(p, [me EXCEPT !.pc = "rate", !.endpoint = endpoint])
       /\ UNCHANGED <<valVars, now, allTables, last>>

\* lines 134-147: the lookup of the rate state, the clock, and for a new
\* source the insert
RateLookup(p) ==
    /\ inv[p].pc = "rate"
    /\ LET me == [inv[p] EXCEPT !.current_time = get_current_time(now)]
           src == me.f.saddr
       IN
       /\ IF Has(map_src_rate, src)
          THEN /\ Step(p, [me EXCEPT !.pc = "rate_read"])
               /\ UNCHANGED map_src_rate
          ELSE IF CanInsert(map_src_rate, src, MaxEntries.rate)
          THEN /\ map_src_rate' =
                     Put(map_src_rate, src,
                         [last_update |-> me.current_time,
                          tokens |-> me.endpoint.burst_limit, last_burst |-> 0])
               /\ Step(p, [me EXCEPT !.pc = "validate", !.rate_ret = 1])
          ELSE /\ Step(p, Leave([me EXCEPT !.rate_ret = -1], XDP_DROP))
               /\ UNCHANGED map_src_rate
    /\ UNCHANGED <<valVars, now, exceptRate, last>>

\* lines 150-156: the stored last_update and tokens are read and the
\* refilled count computed
RateRead(p) ==
    LET me == inv[p]
        state == map_src_rate[me.f.saddr]
        time_diff == Sub32(me.current_time, state.last_update)
        new_tokens == RefillTokens(state.tokens, time_diff, me.endpoint.rate_limit,
                                   me.endpoint.burst_limit)
    IN /\ me.pc = "rate_read"
       /\ Step(p, [me EXCEPT !.pc = IF new_tokens = 0 THEN "rate_deny"
                                                      ELSE "rate_allow",
                             !.new_tokens = new_tokens,
                             !.time_diff = time_diff,
                             !.real_diff = now - state.last_update])
       /\ UNCHANGED <<valVars, now, allTables, last>>

\* lines 158-159: the deny path writes last_update
RateDeny(p) ==
    LET me == inv[p] IN
    /\ me.pc = "rate_deny"
    /\ map_src_rate' =
           [map_src_rate EXCEPT ![me.f.saddr].last_update = me.current_time]
    /\ Step(p, CountThenLeave([me EXCEPT !.rate_ret = 0],
                               STAT_BLOCKED_RATE_LIMIT, XDP_DROP))
    /\ UNCHANGED <<valVars, now, exceptRate, last>>

\* lines 163-167: the allow path writes tokens and last_update
RateAllow(p) ==
    LET me == inv[p] IN
    /\ me.pc = "rate_allow"
    /\ map_src_rate' =
           [map_src_rate EXCEPT ![me.f.saddr].tokens = me.new_tokens - 1,
                                ![me.f.saddr].last_update = me.current_time]
    /\ Step(p, [me EXCEPT !.pc = "validate", !.rate_ret = 1])
    /\ UNCHANGED <<valVars, now, exceptRate, last>>

\* lines 434-455, without the gate: the validator of the endpoint's family
ValidateProtocol(p) ==
    LET me == inv[p]
        f == me.f
        invalid == CountThenLeave(me, STAT_BLOCKED_INVALID_PROTOCOL, XDP_DROP)
    IN /\ me.pc = "validate"
       /\ IF f.protocol = IPPROTO_TCP /\ me.endpoint.protocol_type = 0
          THEN \E valid \in validate_minecraft_java(ValidatedBytes(f), f.caplen) :
                  IF valid = 1 THEN Step(p, [me EXCEPT !.pc = "flow"])
                  ELSE Step(p, invalid)
          ELSE IF /\ f.protocol = IPPROTO_UDP
                  /\ me.endpoint.protocol_type = 1
                  /\ validate_minecraft_bedrock(ValidatedBytes(f), f.caplen) # 0
          THEN Step(p, [me EXCEPT !.pc = "gate"])
          ELSE Step(p, invalid)
       /\ UNCHANGED <<valVars, now, allTables, last>>

\* lines 317-318, 335-356: the lookup of the source's challenge, the clock,
\* and the tests on the challenge found
GateLookup(p) ==
    /\ inv[p].pc = "gate"
    /\ LET me == [inv[p] EXCEPT !.current_time = now]
           src == me.f.saddr
           refused == CountThenLeave(me, STAT_BLOCKED_CHALLENGE_FAILED, XDP_DROP)
       IN
       /\ IF ~Has(map_udp_challenges, src)
          THEN Step(p, [me EXCEPT !.pc = "gate_insert"])
          ELSE LET age == me.current_time - map_udp_challenges[src].timestamp IN
               IF age > CHALLENGE_TIMEOUT_MS
               THEN Step(p, [me EXCEPT !.pc = "gate_expire"])
               ELSE IF 8 > me.f.caplen THEN Step(p, refused)
               ELSE IF age > CHALLENGE_DELAY_MS
               THEN Step(p, [me EXCEPT !.pc = "gate_pass"])
               ELSE Step(p, refused)
    /\ UNCHANGED <<valVars, now, allTables, last>>

\* lines 320-333: the new challenge is stored and counted
GateInsert(p) ==
    LET me == inv[p]
        r == issue_challenge(map_udp_challenges, map_stats, me.f.saddr,
                             me.current_time, MaxEntries.chal)
    IN /\ me.pc = "gate_insert"
       /\ map_udp_challenges' = r.chal
       /\ map_stats' = r.stats
       /\ Step(p, CountThenLeave(me, STAT_BLOCKED_CHALLENGE_FAILED, XDP_DROP))
       /\ UNCHANGED <<valVars, now, exceptGate, last>>

\* lines 338-339: the expired challenge is deleted and the gate entered
\* again
GateExpire(p) ==
    LET me == inv[p] IN
    /\ me.pc = "gate_expire"
    /\ me.reentries < MaxReentries
    /\ map_udp_challenges' = Del(map_udp_challenges, me.f.saddr)
    /\ Step(p, [me EXCEPT !.pc = "gate", !.reentries = @ + 1])
    /\ UNCHANGED <<valVars, now, map_stats, exceptGate, last>>

\* lines 354-356: the challenge is passed, deleted and counted
GatePass(p) ==
    LET me == inv[p] IN
    /\ me.pc = "gate_pass"
    /\ map_udp_challenges' = Del(map_udp_challenges, me.f.saddr)
    /\ map_stats' = update_stats(map_stats, STAT_UDP_CHALLENGES_PASSED)
    /\ Step(p, [me EXCEPT !.pc = "flow"])
    /\ UNCHANGED <<valVars, now, exceptGate, last>>

\* lines 458-465: the lookup of the flow
FlowLookup(p) ==
    LET me == inv[p]
        f == me.f
        flow_hash == hash_5tuple(f.saddr, f.daddr, f.sport, f.dport, f.protocol)
    IN /\ me.pc = "flow"
       /\ IF Has(map_conntrack, flow_hash)
          THEN Step(p, CountThenLeave(me, STAT_ALLOWED_PACKETS, XDP_REDIRECT))
          ELSE Step(p, [me EXCEPT !.pc = "flow_insert"])
       /\ UNCHANGED <<valVars, now, allTables, last>>

\* lines 467-478: the insert of the flow, its result not looked at
FlowInsert(p) ==
    LET me == inv[p]
        f == me.f
        flow_hash == hash_5tuple(f.saddr, f.daddr, f.sport, f.dport, f.protocol)
        new_conn == [src_ip |-> f.saddr, dst_ip |-> f.daddr, src_port |-> f.sport,
                     dst_port |-> f.dport, protocol |-> f.protocol, state |-> 1,
                     challenge_id |-> 0]
    IN /\ me.pc = "flow_insert"
       /\ map_conntrack' =
              IF CanInsert(map_conntrack, flow_hash, MaxEntries.conn)
              THEN Put(map_conntrack, flow_hash, new_conn)
              ELSE map_conntrack
       /\ Step(p, CountThenLeave(me, STAT_ALLOWED_PACKETS, XDP_REDIRECT))
       /\ UNCHANGED <<valVars, now, exceptConn, last>>

\* the update_stats before a return, and the return
CountAndReturn(p) ==
    LET me == inv[p] IN
    /\ me.pc = "count"
    /\ map_stats' = update_stats(map_stats, me.stat)
    /\ Step(p, Leave(me, me.verdict))
    /\ UNCHANGED <<valVars, now, exceptStats, last>>

(***************************************************************************)
(* SpecConcurrent: packets of two sources arrive on the CPUs after the     *)
(* loader has registered a TCP endpoint at address 10 and a UDP endpoint   *)
(* at address 11.                                                          *)
(***************************************************************************)
\* accepted TCP packets of both sources, and a frame cut inside the
\* Ethernet header
ConcurrentFrames ==
    {Frame(HandshakeLikeMac, s, 10, IPPROTO_TCP, JAVA_PORT, HandshakePayload) :
        s \in SrcIPs}
    \cup {f \in OtherFrames : f.caplen < ETH_HLEN}

\* the registry after the loader's add_protected_endpoint calls
TwoEndpoints ==
    LET c == CHOOSE x \in EndpointConfigs : x.protocol = IPPROTO_TCP
        d == CHOOSE x \in EndpointConfigs : x.protocol = IPPROTO_UDP
        t1 == add_protected_endpoint({}, 10, c.front_port, c.protocol, c.origin_ip,
                                     c.origin_port, c.protocol_type, c.rate_limit,
                                     c.burst_limit).trie
    IN add_protected_endpoint(t1, 11, d.front_port, d.protocol, d.origin_ip,
                              d.origin_port, d.protocol_type, d.rate_limit,
                              d.burst_limit).trie

InitRegistered ==
    /\ now = 0
    /\ inv = [p \in Procs |-> Idle]
    /\ map_src_rate = EmptyMap
    /\ map_udp_challenges = EmptyMap
    /\ map_stats = [i \in 0..(STATS_MAX_ENTRIES - 1) |-> 0]
    /\ map_protected_endpoints = TwoEndpoints
    /\ map_conntrack = EmptyMap
    /\ map_blacklist = EmptyMap
    /\ added = EmptyMap
    /\ log = <<>>
    /\ last = [op |-> "none"]

InitConcurrent == InitNoBuffer /\ InitRegistered

NextConcurrent ==
    \/ \E p \in Procs, f \in ConcurrentFrames : Enter(p, f)
    \/ \E p \in Procs : CheckBlacklist(p)
    \/ \E p \in Procs : ResolveEndpoint(p)
    \/ \E p \in Procs : RateLookup(p)
    \/ \E p \in Procs : RateRead(p)
    \/ \E p \in Procs : RateDeny(p)
    \/ \E p \in Procs : RateAllow(p)
    \/ \E p \in Procs : ValidateProtocol(p)
    \/ \E p \in Procs : FlowLookup(p)
    \/ \E p \in Procs : FlowInsert(p)
    \/ \E p \in Procs : CountAndReturn(p)

SpecConcurrent == InitConcurrent /\ [][NextConcurrent]_vars

\* the returns so far with the verdict v
ReturnedWith(v) == {i \in 1..Len(Returned) : Returned[i].verdict = v}

\* C16: once every invocation has returned, the total counter equals the
\* number of invocations and the admitted counter the number of them that
\* returned XDP_REDIRECT, whatever the interleaving; and no step lowers a
\* counter.
C16_CountersExactUnderConcurrency ==
    /\ [](Busy = {} =>
            /\ get_stats(map_stats, STAT_TOTAL_PACKETS) = Len(Returned)
            /\ get_stats(map_stats, STAT_ALLOWED_PACKETS)
                   = Cardinality(ReturnedWith(XDP_REDIRECT)))
    /\ [][\A c \in DOMAIN map_stats : map_stats'[c] >= map_stats[c]]_vars

\* C16 witness: three invocations have returned, two of them forwarded, and
\* a forwarded one ran while another CPU was inside the program.
C16_Witness ==
    /\ Busy = {}
    /\ Len(Returned) = 3
    /\ get_stats(map_stats, STAT_TOTAL_PACKETS) = 3
    /\ get_stats(map_stats, STAT_ALLOWED_PACKETS) = 2
    /\ \E i \in ReturnedWith(XDP_REDIRECT) : Returned[i].overlap

(***************************************************************************)
(* SpecMaintenance: the pipeline with the control plane's write of an      *)
(* endpoint's maintenance flag.                                            *)
(***************************************************************************)
\* the control plane stores m as the maintenance flag of the registry entry
\* of key (front_ip, front_port, protocol)
SetMaintenance(front_ip, front_port, protocol, m) ==
    /\ LET key == [prefix_len |-> 32, ip |-> front_ip, port |-> front_port,
                   protocol |-> protocol]
           old == {n \in map_protected_endpoints : LpmSameNode(n, key)}
       IN /\ old # {}
          /\ map_protected_endpoints' =
                 (map_protected_endpoints \ old)
                     \cup {[n EXCEPT !.info.maintenance_mode = m] : n \in old}
    /\ last' = [op |-> "set_maintenance", front_ip |-> front_ip,
                front_port |-> front_port, protocol |-> protocol, m |-> m,
                t |-> now]
    /\ UNCHANGED <<inv, valVars, now, map_src_rate, map_udp_challenges,
                   map_stats, map_conntrack, map_blacklist, added, log>>

MaintenanceSteps == {3000}
MaintenanceDurations == {500}

InitMaintenance == InitNoBuffer /\ InitTables

NextMaintenance ==
    \/ \E c \in EndpointConfigs : AddEndpoint(c)
    \/ \E c \in EndpointConfigs, m \in {0, 1} :
          SetMaintenance(c.front_ip, c.front_port, c.protocol, m)
    \/ \E ip \in {1}, D \in MaintenanceDurations : BlacklistAdd(ip, D)
    \/ \E f \in Frames : Packet(f)
    \/ \E d \in MaintenanceSteps : Tick(d)

SpecMaintenance == InitMaintenance /\ [][NextMaintenance]_vars

\* the registry entries the frame's destination resolves to
Destination(trie, f) ==
    LpmLookup(trie, [prefix_len |-> 32, ip |-> f.daddr, port |-> f.dport,
                     protocol |-> f.protocol])

\* the last step was an IPv4 TCP or UDP packet whose destination resolves to
\* an endpoint with the maintenance flag set
ToMaintenance ==
    /\ last.op = "packet"
    /\ last.f.h_proto = ETH_P_IP
    /\ last.f.protocol \in {IPPROTO_TCP, IPPROTO_UDP}
    /\ \E n \in Destination(last.pre.eps, last.f) : n.info.maintenance_mode = 1

\* C17: a packet to an endpoint whose maintenance flag is set is dropped; when
\* its source is not blacklisted and the endpoint was resolved, the
\* maintenance counter grows by one, the rate limiter is not called, and the
\* rate state, the challenge state and the flow table are as before
C17_MaintenanceShortCircuit ==
    ToMaintenance =>
        /\ last.verdict = XDP_DROP
        /\ (last.bl_ret = 0 /\ last.resolved # {}) =>
              /\ get_stats(last.post.stats, STAT_BLOCKED_MAINTENANCE)
                     = get_stats(last.pre.stats, STAT_BLOCKED_MAINTENANCE) + 1
              /\ last.rate_ret = NOT_CALLED
              /\ last.post.rate = last.pre.rate
              /\ last.post.chal = last.pre.chal
              /\ last.post.conn = last.pre.conn

\* a source with tokens and a recorded flow sends a payload that would be
\* admitted, to its endpoint now in maintenance
C17_Witness ==
    /\ ToMaintenance
    /\ last.bl_ret = 0
    /\ last.resolved # {}
    /\ last.f.dmac = HandshakeLikeMac
    /\ last.f.saddr \in DOMAIN last.pre.rate
    /\ DOMAIN last.pre.conn # {}
    /\ last.verdict = XDP_DROP
    /\ get_stats(last.post.stats, STAT_BLOCKED_MAINTENANCE) = 1

(***************************************************************************)
(* SpecGate: UDP packets of one source on the CPUs, through the challenge  *)
(* gate, with the clock advancing between any two steps.                   *)
(***************************************************************************)
MaxGateTicks == 2

\* the longest time after which a challenge is still pending, and the
\* shortest after which it has expired
GateSteps == {CHALLENGE_TIMEOUT_MS, CHALLENGE_TIMEOUT_MS + 1}

GateTick(d) ==
    /\ now + d <= MaxGateTicks * (CHALLENGE_TIMEOUT_MS + 1)
    /\ now' = now + d
    /\ UNCHANGED <<inv, valVars, tables, log, last>>

\* the source's packet that the Bedrock validator accepts, to the UDP endpoint
GateFrames ==
    {Frame(HandshakeLikeMac, 1, 11, IPPROTO_UDP, BEDROCK_PORT, PingPayload)}

NextGate ==
    \/ \E p \in Procs, f \in GateFrames : Enter(p, f)
    \/ \E p \in Procs : CheckBlacklist(p)
    \/ \E p \in Procs : ResolveEndpoint(p)
    \/ \E p \in Procs : RateLookup(p)
    \/ \E p \in Procs : RateRead(p)
    \/ \E p \in Procs : RateDeny(p)
    \/ \E p \in Procs : RateAllow(p)
    \/ \E p \in Procs : ValidateProtocol(p)
    \/ \E p \in Procs : GateLookup(p)
    \/ \E p \in Procs : GateInsert(p)
    \/ \E p \in Procs : GateExpire(p)
    \/ \E p \in Procs : GatePass(p)
    \/ \E p \in Procs : FlowLookup(p)
    \/ \E p \in Procs : FlowInsert(p)
    \/ \E p \in Procs : CountAndReturn(p)
    \/ \E d \in GateSteps : GateTick(d)

SpecGate == InitConcurrent /\ [][NextGate]_vars

\* C18: no invocation, running or returned, has taken the expired-challenge
\* path back into the gate more than once
C18_GateReentersAtMostOnce ==
    /\ \A p \in Busy : inv[p].reentries <= 1
    /\ \A i \in 1..Len(Returned) : Returned[i].reentries <= 1

(***************************************************************************)
(* SpecFlow: accepted TCP packets of sources whose address bits lie inside *)
(* the bits of the destination port, one packet at a time.                 *)
(***************************************************************************)
\* 1 and 4 are both within the one-bits of JAVA_PORT
FlowSrcIPs == {1, 4}

FlowFrames ==
    {Frame(HandshakeLikeMac, s, 10, IPPROTO_TCP, JAVA_PORT, pl) :
        s \in FlowSrcIPs, pl \in {HandshakePayload, JunkPayload}}

\* the time in which the endpoint's rate earns a token
FlowSteps == {1000}

NextFlow ==
    \/ \E f \in FlowFrames : Packet(f)
    \/ \E d \in FlowSteps : Tick(d)

SpecFlow == InitConcurrent /\ [][NextFlow]_vars

\* the flow entry records the frame's 5-tuple as an established flow
RecordsFlow(e, f) ==
    /\ e.src_ip = f.saddr
    /\ e.dst_ip = f.daddr
    /\ e.src_port = f.sport
    /\ e.dst_port = f.dport
    /\ e.protocol = f.protocol
    /\ e.state = 1

\* C19: after a packet that was forwarded the flow table holds an
\* established entry with that packet's 5-tuple, and the entries that were
\* there before are as they were
C19_ForwardImpliesFlowRecorded ==
    (last.op = "packet" /\ last.verdict = XDP_REDIRECT) =>
        /\ \E h \in DOMAIN last.post.conn : RecordsFlow(last.post.conn[h], last.f)
        /\ \A h \in DOMAIN last.pre.conn :
              /\ h \in DOMAIN last.post.conn
              /\ last.post.conn[h] = last.pre.conn[h]

(***************************************************************************)
(* SpecRace: accepted TCP packets of one source on the CPUs, the clock     *)
(* advancing by a millisecond between steps; the endpoint's rate earns no  *)
(* token in that time.                                                     *)
(***************************************************************************)
MaxRaceClock == 2

RaceTick ==
    /\ now < MaxRaceClock
    /\ now' = now + 1
    /\ UNCHANGED <<inv, valVars, tables, log, last>>

RaceFrames ==
    {Frame(HandshakeLikeMac, 1, 10, IPPROTO_TCP, JAVA_PORT, HandshakePayload)}

NextRace ==
    \/ \E p \in Procs, f \in RaceFrames : Enter(p, f)
    \/ \E p \in Procs : CheckBlacklist(p)
    \/ \E p \in Procs : ResolveEndpoint(p)
    \/ \E p \in Procs : RateLookup(p)
    \/ \E p \in Procs : RateRead(p)
    \/ \E p \in Procs : RateDeny(p)
    \/ \E p \in Procs : RateAllow(p)
    \/ \E p \in Procs : ValidateProtocol(p)
    \/ \E p \in Procs : FlowLookup(p)
    \/ \E p \in Procs : FlowInsert(p)
    \/ \E p \in Procs : CountAndReturn(p)
    \/ RaceTick

SpecRace == InitConcurrent /\ [][NextRace]_vars

\* the burst limit of the endpoint the packets of RaceFrames go to: the
\* tokens the source's rate state holds once its first packet has stored it
RaceTokens ==
    LET n == CHOOSE x \in TwoEndpoints : x.ip = 10 IN n.info.burst_limit

\* C20: of the invocations that find the source's rate state, at most as many
\* return allow as the state held tokens (so, with the one that stored the
\* state, RaceTokens + 1 at most), and none uses an elapsed time larger than
\* the time since the last_update it read
C20_NoTokenSpentTwice ==
    /\ Cardinality({i \in 1..Len(Returned) : Returned[i].rate_ret = 1})
           <= RaceTokens + 1
    /\ \A i \in 1..Len(Returned) :
          /\ Returned[i].time_diff[1] = 0
          /\ Returned[i].time_diff[2] <= Returned[i].real_diff

(***************************************************************************)
(* SpecUnblock: packets of one source on the CPUs while the loader's       *)
(* add_to_blacklist runs and the clock advances between steps.             *)
(***************************************************************************)
UnblockSteps == {1000}
UnblockDurations == {500}

UnblockFrames ==
    {Frame(HandshakeLikeMac, 1, 10, IPPROTO_TCP, JAVA_PORT, HandshakePayload)}

NextUnblock ==
    \/ \E p \in Procs, f \in UnblockFrames : Enter(p, f)
    \/ \E p \in Procs : CheckBlacklist(p)
    \/ \E p \in Procs : DeleteExpiredBlock(p)
    \/ \E p \in Procs : ResolveEndpoint(p)
    \/ \E p \in Procs : RateLookup(p)
    \/ \E p \in Procs : RateRead(p)
    \/ \E p \in Procs : RateDeny(p)
    \/ \E p \in Procs : RateAllow(p)
    \/ \E p \in Procs : ValidateProtocol(p)
    \/ \E p \in Procs : FlowLookup(p)
    \/ \E p \in Procs : FlowInsert(p)
    \/ \E p \in Procs : CountAndReturn(p)
    \/ \E D \in UnblockDurations : BlacklistAdd(1, D)
    \/ \E d \in UnblockSteps : Tick(d)

SpecUnblock == InitConcurrent /\ [][NextUnblock]_vars

\* the addresses whose blacklist entry blocks at the clock reading t
LiveBlocks(bl, t) == {ip \in DOMAIN bl : t < bl[ip]}

\* C21: no step removes a blacklist entry whose block-until is still ahead,
\* so an entry stored between an invocation's lookup of the expired entry
\* and its delete is there afterwards
C21_ExpiryKeepsLiveBlock ==
    [][LiveBlocks(map_blacklist, now) \subseteq DOMAIN map_blacklist']_vars

\* gate calls i < j of one source with no call of that source between them
NextGateCall(i, j) ==
    /\ i < j
    /\ log[i].src = log[j].src
    /\ \A k \in (i + 1)..(j - 1) : log[k].src # log[i].src

\* the last gate call is the first of its source after a call that allowed
AfterAllow ==
    /\ last.op = "challenge"
    /\ \E i \in 1..(Len(log) - 1) :
          NextGateCall(i, Len(log)) /\ log[i].ret = 1

\* SpecChallengeFull: the gate calls on a challenge table of MaxTableEntries
\* entries
NextChallengeFull ==
    \/ \E src \in SrcIPs : ChallengePacketWith(src, MaxTableEntries)
    \/ \E d \in ChallengeSteps : ChallengeTick(d)

SpecChallengeFull == InitChallenge /\ [][NextChallengeFull]_vars

\* an allowing call is followed by a denying call of the same source; two
\* allowing calls of a source are more than CHALLENGE_DELAY_MS apart; an
\* allowing call leaves its source without challenge
AllowsApart ==
    /\ \A i, j \in 1..Len(log) :
          (NextGateCall(i, j) /\ log[i].ret = 1) => log[j].ret = 0
    /\ \A i, j \in 1..Len(log) :
          (i < j /\ log[i].src = log[j].src /\ log[i].ret = 1 /\ log[j].ret = 1)
              => log[j].t - log[i].t > CHALLENGE_DELAY_MS
    /\ (last.op = "challenge" /\ last.ret = 1) => ~Has(last.post.chal, last.src)

\* the last gate call stored a challenge stamped with its time
NewChallenge ==
    /\ Has(last.post.chal, last.src)
    /\ last.post.chal[last.src].timestamp = last.t

\* C22 as stated: one packet at a time, the gate call that follows an
\* allowing call of the same source denies and stores a new challenge; an
\* allowing call leaves its source without challenge; two allowing calls of
\* a source are more than CHALLENGE_DELAY_MS apart
C22_ChallengeRepeatedAfterAllow ==
    /\ AllowsApart
    /\ AfterAllow => (~Has(last.pre.chal, last.src) /\ NewChallenge)

\* C22 amended: as above, but the new challenge is stored only when the
\* table has room for it; on a full table the call denies and leaves the
\* table as it was
C22_ChallengeRepeatedWhileRoom ==
    /\ AllowsApart
    /\ AfterAllow =>
          /\ ~Has(last.pre.chal, last.src)
          /\ IF CanInsert(last.pre.chal, last.src, MaxTableEntries)
             THEN NewChallenge
             ELSE last.post.chal = last.pre.chal

\* a source is allowed, denied with a new challenge, and allowed again
C22_Witness ==
    /\ Len(log) = 4
    /\ \A i \in 1..4 : log[i].src = 1
    /\ log[2].ret = 1
    /\ log[3].ret = 0
    /\ log[4].ret = 1
    /\ log[4].t - log[2].t = CHALLENGE_DELAY_MS + 1

(***************************************************************************)
(* SpecRecovery: update_rate_limit for the packets of one source that      *)
(* keeps sending, half a second or a second apart.                         *)
(***************************************************************************)
RecoverySteps == {500, 1000}
RecoveryLimits == {1, 2}

NextRecovery ==
    \/ \E rl \in RecoveryLimits, bl \in RecoveryLimits : RatePacket(1, rl, bl)
    \/ \E d \in RecoverySteps : RateTick(d)

SpecRecovery == InitRate /\ [][NextRecovery]_vars

\* the time in which rate_limit tokens per second earn one token
RefillInterval(rate_limit) == (1000 + rate_limit - 1) \div rate_limit

\* call j of log is the first of its source at least one refill interval
\* after the source's last allowed call a, the endpoint's limits the same
\* from a to j
FirstAfterInterval(a, j) ==
    /\ a < j
    /\ log[a].ret = 1
    /\ \A k \in a..j : /\ log[k].src = log[a].src
                       /\ log[k].rate_limit = log[a].rate_limit
                       /\ log[k].burst_limit = log[a].burst_limit
    /\ \A k \in (a + 1)..(j - 1) :
          /\ log[k].ret = 0
          /\ log[k].t - log[a].t < RefillInterval(log[a].rate_limit)
    /\ log[j].t - log[a].t >= RefillInterval(log[a].rate_limit)

\* C23: the first packet a source sends at least one refill interval after
\* its last allowed packet is allowed, whatever was denied in between
C23_RecoveryAfterRateLimiting ==
    \A a, j \in 1..Len(log) : FirstAfterInterval(a, j) => log[j].ret = 1

=============================================================================
